---------------------------- MODULE Spec2Model ----------------------------
(***************************************************************************)
(* A model of narrative-writer: the chunker (src/processor/chunking.py),   *)
(* the usage tracker (src/llm/token_counter.py), the provider tables       *)
(* (src/llm/provider.py, src/llm/novelai_provider.py) and the orchestrator *)
(* (src/processor/conversation.py) driven by main (narrative_writer.py).   *)
(*                                                                         *)
(* Texts are sequences of words (a "." is a word of its own); Python's     *)
(* 0-based indices are kept, and seq[a:b] is Slice(seq, a, b).  Token      *)
(* counts of the serialized conversation and of the prompts are the        *)
(* tokenizer's answers, chosen by the environment; a generated text has    *)
(* one token per word.  Costs are integers in units of 2.5e-11 dollars     *)
(* (every price of the tables is a whole number of them per token).        *)
(***************************************************************************)
EXTENDS Integers, Sequences, FiniteSets, TLC

VARIABLES
    \* ---- the command line, the files and the configuration
    model_arg,          \* args.model
    input_kind,         \* what the input file holds
    output_writable,    \* whether the output path can be written
    conversation,       \* the loaded list of exchanges
    json_tokens,        \* count_tokens(json.dumps(conversation))
    split_on_scenes,    \* ConversationChunker.split_on_scenes
    context_exchanges,  \* ConversationChunker.context_exchanges
    config_file_ceiling,        \* max_input_tokens of the configuration file
    \* ---- the configuration in memory and the adapter
    config_max_input_tokens,    \* config['llm'].get('max_input_tokens')
    llm_max_tokens,             \* self.llm.max_tokens
    \* ---- TokenCounter
    provider,           \* config['llm']['provider']
    model_version,      \* config['llm']['model_version']
    max_tokens,
    total_input_tokens,
    total_output_tokens,
    total_cost,
    max_context_used,
    max_context_chunk,
    \* ---- process_conversation's locals and main's result
    pc,
    chunk_boundaries,
    chunks,
    i,
    prompt,
    input_tokens,
    narrative_part,
    narrative_parts,
    narrative,
    output_file,
    exit_code,
    error,
    \* ---- history
    events,             \* the calls made so far, in order
    usage_log,          \* the (input, output) pairs given to add_usage
    generate_calls,     \* the (prompt, system prompt) pairs given to generate
    warnings            \* the context warnings printed so far

vars == <<model_arg, input_kind, output_writable, conversation, json_tokens,
          split_on_scenes, context_exchanges, provider, model_version,
          max_tokens, total_input_tokens, total_output_tokens, total_cost,
          max_context_used, max_context_chunk, pc, chunk_boundaries, chunks,
          i, prompt, input_tokens, narrative_part, narrative_parts, narrative,
          output_file, exit_code, error, events, usage_log, generate_calls,
          warnings, config_file_ceiling, config_max_input_tokens,
          llm_max_tokens>>

inputVars == <<model_arg, input_kind, output_writable, conversation,
               json_tokens, split_on_scenes, context_exchanges,
               config_file_ceiling>>

trackerVars == <<total_input_tokens, total_output_tokens, total_cost,
                 max_context_used, max_context_chunk>>

logVars == <<generate_calls, warnings>>

\* previous_chunk_end = None; a local that was never assigned; no output file.
NoneEnd == -1
Unbound == <<"<unbound>">>
Unwritten == <<"<no file>">>

(***************************************************************************)
(* Bounds of the model.                                                    *)
(***************************************************************************)
MaxExchanges == 4       \* longest conversation given to the chunker alone
MaxContext == 3         \* largest context_exchanges
MaxRunExchanges == 3    \* longest conversation of a whole run
MaxCalls == 2           \* add_usage calls on a tracker alone

(***************************************************************************)
(* Python sequences.                                                       *)
(***************************************************************************)
Max(a, b) == IF a >= b THEN a ELSE b
Min(a, b) == IF a <= b THEN a ELSE b

\* seq[a:b] for 0 <= a and 0 <= b (b is clamped to the length).
Slice(seq, a, b) == SubSeq(seq, a + 1, Min(b, Len(seq)))

\* seq[k], 0-based.
At(seq, k) == seq[k + 1]

\* range(a, b) as a sequence.
Range(a, b) == [k \in 1..Max(b - a, 0) |-> a + k - 1]

(***************************************************************************)
(* Exchanges and texts.                                                    *)
(***************************************************************************)
Plain == [prompt |-> <<"i", "enter", "the", "room">>,
          response |-> <<"it", "is", "dark">>]
Cue == [prompt |-> <<"i", "wake">>,
        response |-> <<"The", "next", "day", "arrives">>]
\* "after" ends the prompt and a word starts the response.
Joined == [prompt |-> <<"we", "rest", "after">>, response |-> <<"dinner">>]
\* No cue: "after" is followed by a full stop, "next" "day" lacks "the".
NearMiss == [prompt |-> <<"day", "after">>,
             response |-> <<".", "next", "day", "collateral">>]

ExchangePool == {Plain, Cue, Joined, NearMiss}
RunExchangePool == {Plain, Cue}

SeqsUpTo(S, n) == UNION {[1..k -> S] : k \in 0..n}

\* re.IGNORECASE on the words of the model.
Lower(w) == CASE w = "The" -> "the"
              [] w = "LATER" -> "later"
              [] OTHER -> w

\* f"{a} {b}": the words of a, then the words of b.
JoinSpace(a, b) == a \o b

\* re.search(pattern, text, re.IGNORECASE) for the pattern that
\* detect_scene_change builds: "\b" + indicator + "\b", joined by "|".
PatternSearch(text) ==
    LET n == Len(text)
        w == [k \in 1..n |-> Lower(text[k])]
        follows(k, S) == k + 1 <= n /\ w[k + 1] \in S
    IN \E k \in 1..n :
          \/ w[k] = "later"
          \/ w[k] = "the" /\ k + 2 <= n /\ w[k + 1] = "next" /\ w[k + 2] = "day"
          \/ w[k] = "after" /\ k + 1 <= n /\ w[k + 1] # "."
          \/ w[k] = "suddenly"
          \/ w[k] = "meanwhile"
          \/ w[k] = "elsewhere"
          \/ w[k] \in {"hour", "hours"} /\ follows(k, {"later", "passed"})
          \/ w[k] \in {"day", "days"} /\ follows(k, {"later", "passed"})
          \/ w[k] = "the" /\ follows(k, {"following"})
          \/ w[k] = "that"
             /\ follows(k, {"evening", "morning", "afternoon", "night"})

(***************************************************************************)
(* ConversationChunker.                                                    *)
(***************************************************************************)
\* A mutant: the cue is looked for in the current exchange of the pair.
detect_scene_change_current(current, next_exchange) ==
    PatternSearch(JoinSpace(current.prompt, current.response))

\* A mutant: a cue in either exchange of the pair counts.
detect_scene_change_either(current, next_exchange) ==
    \/ PatternSearch(JoinSpace(current.prompt, current.response))
    \/ PatternSearch(JoinSpace(next_exchange.prompt, next_exchange.response))

detect_scene_change(current, next_exchange) ==
    LET next_text == JoinSpace(next_exchange.prompt, next_exchange.response)
    IN PatternSearch(next_text)

\* A mutant: the scene test is made even when splitting is disabled.
FindLoopBody_always(conv, st, k) ==
    IF k < Len(conv) - 1
          /\ detect_scene_change(At(conv, k), At(conv, k + 1))
    THEN <<Append(st[1], <<st[2], k + 1>>), k + 1>>
    ELSE st

\* A mutant: the next chunk starts one exchange late.
FindLoopBody_skip(conv, st, k) ==
    IF split_on_scenes /\ k < Len(conv) - 1
          /\ detect_scene_change(At(conv, k), At(conv, k + 1))
    THEN <<Append(st[1], <<st[2], k + 1>>), k + 2>>
    ELSE st

\* The for loop of find_chunk_boundaries, one iteration per element of
\* range(1, len(conversation)); st is <<chunks, current_start>>.
FindLoopBody(conv, st, k) ==
    IF split_on_scenes /\ k < Len(conv) - 1
          /\ detect_scene_change(At(conv, k), At(conv, k + 1))
    THEN <<Append(st[1], <<st[2], k + 1>>), k + 1>>
    ELSE st

find_chunk_boundaries(conv) ==
    LET RECURSIVE loop(_, _)
        loop(st, ks) == IF ks = <<>> THEN st
                        ELSE loop(FindLoopBody(conv, st, Head(ks)), Tail(ks))
        done == loop(<<<<>>, 0>>, Range(1, Len(conv)))
        current_start == done[2]
    IN IF current_start < Len(conv)
       THEN Append(done[1], <<current_start, Len(conv)>>)
       ELSE done[1]

\* A mutant: the slice runs one exchange too far, into the chunk itself.
get_context_for_chunk_inclusive(conv, start_idx, previous_chunk_end) ==
    IF previous_chunk_end = NoneEnd \/ start_idx = 0
    THEN <<>>
    ELSE LET context_start == Max(previous_chunk_end - context_exchanges, 0)
         IN Slice(conv, context_start, previous_chunk_end + 1)

get_context_for_chunk(conv, start_idx, previous_chunk_end) ==
    IF previous_chunk_end = NoneEnd \/ start_idx = 0
    THEN <<>>
    ELSE LET context_start == Max(previous_chunk_end - context_exchanges, 0)
         IN Slice(conv, context_start, previous_chunk_end)

\* chunk_conversation, given the boundaries it has computed.
ChunksOf(conv, boundaries) ==
    [k \in 1..Len(boundaries) |->
        LET start == boundaries[k][1]
            end == boundaries[k][2]
            previous_end == IF k = 1 THEN NoneEnd ELSE boundaries[k - 1][2]
        IN [exchanges |-> Slice(conv, start, end),
            context |-> get_context_for_chunk(conv, start, previous_end)]]

chunk_conversation(conv) == ChunksOf(conv, find_chunk_boundaries(conv))

(***************************************************************************)
(* The provider tables.                                                    *)
(***************************************************************************)
\* The tier threshold of GeminiProvider.calculate_cost.
TierThreshold == 128000
\* TokenCounter.max_tokens and LLMProvider.max_tokens without a configured
\* max_input_tokens.
DefaultMaxTokens == 128000

Flat(p) == [standard |-> p, extended |-> p, tiered |-> FALSE]
Tiered(s, e) == [standard |-> s, extended |-> e, tiered |-> TRUE]

\* MODEL_CONFIGS of the four providers; prices in units per token.
MODEL_CONFIGS ==
    [openai |->
        ("gpt-4o" :> [max_input_tokens |-> 128000,
                      input_price |-> Flat(100), output_price |-> Flat(400)]
         @@ "gpt-4o-mini" :> [max_input_tokens |-> 128000,
                              input_price |-> Flat(6),
                              output_price |-> Flat(24)]),
     anthropic |->
        ("claude-3-opus-latest" :> [max_input_tokens |-> 200000,
                                    input_price |-> Flat(600),
                                    output_price |-> Flat(3000)]
         @@ "claude-3-sonnet-latest" :> [max_input_tokens |-> 200000,
                                         input_price |-> Flat(120),
                                         output_price |-> Flat(600)]
         @@ "claude-3-haiku-latest" :> [max_input_tokens |-> 200000,
                                        input_price |-> Flat(32),
                                        output_price |-> Flat(160)]),
     gemini |->
        ("gemini-2.0-flash" :> [max_input_tokens |-> 1000000,
                                input_price |-> Flat(4),
                                output_price |-> Flat(16)]
         @@ "gemini-1.5-flash" :> [max_input_tokens |-> 1000000,
                                   input_price |-> Tiered(3, 6),
                                   output_price |-> Tiered(12, 24)]
         @@ "gemini-1.5-pro" :> [max_input_tokens |-> 2000000,
                                 input_price |-> Tiered(50, 100),
                                 output_price |-> Tiered(200, 400)]),
     novelai |->
        ("erato" :> [max_input_tokens |-> 16384,
                     input_price |-> Flat(0), output_price |-> Flat(0)]
         @@ "kayra" :> [max_input_tokens |-> 8192,
                        input_price |-> Flat(0), output_price |-> Flat(0)]
         @@ "clio" :> [max_input_tokens |-> 8192,
                       input_price |-> Flat(0), output_price |-> Flat(0)]
         @@ "krake" :> [max_input_tokens |-> 8192,
                        input_price |-> Flat(0), output_price |-> Flat(0)])]

PROVIDERS == DOMAIN MODEL_CONFIGS
ModelsOf(p) == DOMAIN MODEL_CONFIGS[p]

\* config.json's available_models: provider -> models, as the help text of
\* parse_args lists them.
available_models == [p \in PROVIDERS |-> ModelsOf(p)]
AllModels == UNION {available_models[p] : p \in PROVIDERS}

model_config == MODEL_CONFIGS[provider][model_version]

\* NovelAIProvider.calculate_cost carries a 'subscription' entry.
SubscriptionLabel == <<"$20/month unlimited">>
NoSubscription == <<>>

\* A mutant: the subscription adapter answers like a per-token one, with
\* no 'subscription' entry.
calculate_cost_unlabelled(in_tokens, out_tokens) ==
    LET cfg == model_config
        input_cost == in_tokens * cfg.input_price.standard
        output_cost == out_tokens * cfg.output_price.standard
    IN [input_cost |-> input_cost, output_cost |-> output_cost,
        total_cost |-> input_cost + output_cost,
        subscription |-> NoSubscription]

\* A mutant: the input count chooses the tier of both sides.
calculate_cost_input_tier(in_tokens, out_tokens) ==
    LET cfg == model_config
        extended == in_tokens > TierThreshold
        input_price == IF extended THEN cfg.input_price.extended
                       ELSE cfg.input_price.standard
        output_price == IF extended THEN cfg.output_price.extended
                        ELSE cfg.output_price.standard
        input_cost == in_tokens * input_price
        output_cost == out_tokens * output_price
    IN [input_cost |-> input_cost, output_cost |-> output_cost,
        total_cost |-> input_cost + output_cost,
        subscription |-> IF provider = "novelai" THEN SubscriptionLabel
                         ELSE NoSubscription]

\* provider.calculate_cost(input_tokens, output_tokens)
calculate_cost(in_tokens, out_tokens) ==
    IF provider = "novelai"
    THEN [input_cost |-> 0, output_cost |-> 0, total_cost |-> 0,
          subscription |-> SubscriptionLabel]
    ELSE LET cfg == model_config
             input_price == IF in_tokens <= TierThreshold
                            THEN cfg.input_price.standard
                            ELSE cfg.input_price.extended
             output_price == IF out_tokens <= TierThreshold
                             THEN cfg.output_price.standard
                             ELSE cfg.output_price.extended
             input_cost == in_tokens * input_price
             output_cost == out_tokens * output_price
         IN [input_cost |-> input_cost, output_cost |-> output_cost,
             total_cost |-> input_cost + output_cost,
             subscription |-> NoSubscription]

(***************************************************************************)
(* TokenCounter.                                                           *)
(***************************************************************************)
\* A mutant: a tie moves the peak record.
AddUsageState_ties(in_tokens, out_tokens) ==
    LET new_in == total_input_tokens + in_tokens
        new_out == total_output_tokens + out_tokens
        chunk_total == in_tokens + out_tokens
        peak == chunk_total >= max_context_used
        costs == calculate_cost(in_tokens, out_tokens)
    IN <<new_in,
         new_out,
         IF costs.subscription = NoSubscription
         THEN total_cost + costs.total_cost ELSE total_cost,
         IF peak THEN chunk_total ELSE max_context_used,
         IF peak THEN new_in + new_out ELSE max_context_chunk>>

\* A mutant: the output count is added to the input counter.
AddUsageState_mixed(in_tokens, out_tokens) ==
    LET new_in == total_input_tokens + in_tokens + out_tokens
        new_out == total_output_tokens
        chunk_total == in_tokens + out_tokens
        peak == chunk_total > max_context_used
    IN <<new_in, new_out, total_cost,
         IF peak THEN chunk_total ELSE max_context_used,
         IF peak THEN new_in + new_out ELSE max_context_chunk>>

\* A mutant: the peak's position is the cumulative total before the call.
AddUsageState_position_before(in_tokens, out_tokens) ==
    LET new_in == total_input_tokens + in_tokens
        new_out == total_output_tokens + out_tokens
        chunk_total == in_tokens + out_tokens
        peak == chunk_total > max_context_used
        costs == calculate_cost(in_tokens, out_tokens)
    IN <<new_in,
         new_out,
         IF costs.subscription = NoSubscription
         THEN total_cost + costs.total_cost ELSE total_cost,
         IF peak THEN chunk_total ELSE max_context_used,
         IF peak THEN total_input_tokens + total_output_tokens
         ELSE max_context_chunk>>

\* The new values of <<total_input_tokens, total_output_tokens, total_cost,
\* max_context_used, max_context_chunk>> after add_usage.
AddUsageState(in_tokens, out_tokens) ==
    LET new_in == total_input_tokens + in_tokens
        new_out == total_output_tokens + out_tokens
        chunk_total == in_tokens + out_tokens
        peak == chunk_total > max_context_used
        costs == calculate_cost(in_tokens, out_tokens)
    IN <<new_in,
         new_out,
         IF costs.subscription = NoSubscription
         THEN total_cost + costs.total_cost ELSE total_cost,
         IF peak THEN chunk_total ELSE max_context_used,
         IF peak THEN new_in + new_out ELSE max_context_chunk>>

\* self.<counters> := the result of add_usage, and the call is logged.
add_usage(in_tokens, out_tokens) ==
    LET st == AddUsageState(in_tokens, out_tokens)
    IN /\ total_input_tokens' = st[1]
       /\ total_output_tokens' = st[2]
       /\ total_cost' = st[3]
       /\ max_context_used' = st[4]
       /\ max_context_chunk' = st[5]
       /\ usage_log' = Append(usage_log, <<in_tokens, out_tokens>>)

\* f"${cost:.4f}": the cost in ten-thousandths of a dollar, rounded to the
\* nearest (4000000 units each).
FormatDollars4(units) == <<(units + 2000000) \div 4000000>>

\* A mutant: the cost reported is the one computed on the cumulative
\* totals.
get_running_totals_recomputed ==
    LET total_tokens == total_input_tokens + total_output_tokens
        costs == calculate_cost(total_input_tokens, total_output_tokens)
    IN [input_tokens |-> total_input_tokens,
        output_tokens |-> total_output_tokens,
        total_tokens |-> total_tokens,
        cost |-> IF costs.subscription # NoSubscription
                 THEN costs.subscription
                 ELSE FormatDollars4(costs.total_cost),
        context_info |-> [max_used |-> max_context_used,
                          max_allowed |-> max_tokens,
                          at_tokens |-> max_context_chunk]]

\* get_running_totals(); max_percent is kept as the pair it is computed
\* from, and the cost is the subscription label or the formatted total.
get_running_totals ==
    LET total_tokens == total_input_tokens + total_output_tokens
        costs == calculate_cost(total_input_tokens, total_output_tokens)
    IN [input_tokens |-> total_input_tokens,
        output_tokens |-> total_output_tokens,
        total_tokens |-> total_tokens,
        cost |-> IF costs.subscription # NoSubscription
                 THEN costs.subscription ELSE FormatDollars4(total_cost),
        context_info |-> [max_used |-> max_context_used,
                          max_allowed |-> max_tokens,
                          at_tokens |-> max_context_chunk]]

\* int(self.max_tokens * 0.8)
EffectiveLimit == (max_tokens * 8) \div 10

\* A mutant: a text of exactly the limit does not fit.
will_fit_in_context_strict(token_count) == token_count < EffectiveLimit

\* A mutant: the text is held against the whole ceiling.
will_fit_in_context_whole(token_count) == token_count <= max_tokens

\* will_fit_in_context(text), given the provider's count for the text.
will_fit_in_context(token_count) == token_count <= EffectiveLimit

(***************************************************************************)
(* Initial values.                                                         *)
(***************************************************************************)
NoExit == 0 - 1
NoPrompt == [context |-> <<>>, exchanges |-> <<>>,
             start_instruction |-> "", end_instruction |-> ""]

\* Nothing has run yet.
RunIdle ==
    /\ chunk_boundaries = <<>>
    /\ chunks = <<>>
    /\ i = 0
    /\ prompt = NoPrompt
    /\ input_tokens = 0
    /\ narrative_part = Unbound
    /\ narrative_parts = <<>>
    /\ narrative = Unbound
    /\ output_file = Unwritten
    /\ exit_code = NoExit
    /\ error = ""
    /\ events = <<>>
    /\ generate_calls = <<>>
    /\ warnings = <<>>

\* TokenCounter.__init__: the counters of a fresh tracker.
TokenCounterFresh ==
    /\ total_input_tokens = 0
    /\ total_output_tokens = 0
    /\ total_cost = 0
    /\ max_context_used = 0
    /\ max_context_chunk = 0
    /\ usage_log = <<>>

\* The provider constructor writes the model's ceiling into the
\* configuration, and TokenCounter.__init__ reads it from there.
ConfiguredMaxTokens(p, m) ==
    LET config == [max_input_tokens |-> MODEL_CONFIGS[p][m].max_input_tokens]
    IN IF "max_input_tokens" \in DOMAIN config
       THEN config.max_input_tokens ELSE DefaultMaxTokens

\* The configuration has no max_input_tokens entry.
NotConfigured == 0 - 1

\* config.get('max_input_tokens', default)
ConfigGet(value, default) == IF value = NotConfigured THEN default ELSE value

\* A mutant: the model's ceiling is written only when the configuration
\* has none (setdefault).
LLMProviderInit_setdefault(config_value, p, m) ==
    LET written == ConfigGet(config_value,
                             MODEL_CONFIGS[p][m].max_input_tokens)
    IN [config |-> written,
        max_tokens |-> ConfigGet(written, DefaultMaxTokens)]

\* A provider's __init__: the model's ceiling is written into the
\* configuration whatever it held, then LLMProvider.__init__ reads it back.
LLMProviderInit(config_value, p, m) ==
    LET written == MODEL_CONFIGS[p][m].max_input_tokens
    IN [config |-> written,
        max_tokens |-> ConfigGet(written, DefaultMaxTokens)]

\* TokenCounter.__init__: self.provider = get_provider(config), then
\* self.max_tokens = config.get('max_input_tokens', 128000).
TokenCounterInit(config_value, p, m) ==
    LET tracker_provider == LLMProviderInit(config_value, p, m)
    IN [config |-> tracker_provider.config,
        max_tokens |-> ConfigGet(tracker_provider.config, DefaultMaxTokens)]

runVars == <<pc, chunk_boundaries, chunks, i, prompt, input_tokens,
             narrative_part, narrative_parts, narrative, output_file,
             exit_code, error, events>>
providerVars == <<provider, model_version, max_tokens,
                  config_max_input_tokens, llm_max_tokens>>

(***************************************************************************)
(* The chunker alone: chunk_conversation applied to any conversation.      *)
(***************************************************************************)
InitChunker ==
    /\ conversation \in SeqsUpTo(ExchangePool, MaxExchanges)
    /\ split_on_scenes \in BOOLEAN
    /\ context_exchanges \in 0..MaxContext
    /\ model_arg = "gpt-4o" /\ input_kind = "list" /\ output_writable = TRUE
    /\ json_tokens = 0
    /\ provider = "openai" /\ model_version = "gpt-4o"
    /\ max_tokens = ConfiguredMaxTokens("openai", "gpt-4o")
    /\ config_file_ceiling = NotConfigured
    /\ config_max_input_tokens = ConfiguredMaxTokens("openai", "gpt-4o")
    /\ llm_max_tokens = ConfiguredMaxTokens("openai", "gpt-4o")
    /\ TokenCounterFresh
    /\ RunIdle
    /\ pc = "chunker"

ChunkerCall ==
    /\ pc = "chunker"
    /\ chunk_boundaries' = find_chunk_boundaries(conversation)
    /\ chunks' = chunk_conversation(conversation)
    /\ pc' = "chunked"
    /\ UNCHANGED <<inputVars, logVars, providerVars, trackerVars, usage_log,
                   i, prompt, input_tokens, narrative_part, narrative_parts,
                   narrative, output_file, exit_code, error, events>>

NextChunker == ChunkerCall

SpecChunker == InitChunker /\ [][NextChunker]_vars

(***************************************************************************)
(* The tracker alone: any sequence of add_usage calls on a fresh tracker.  *)
(***************************************************************************)
\* Token counts given to add_usage: small ones, and the three around the
\* tier threshold.
TokenSamples == {0, 1, 127999, 128000, 128001}

InitTracker ==
    /\ \E p \in PROVIDERS : \E m \in ModelsOf(p) :
          /\ provider = p
          /\ model_version = m
          /\ model_arg = m
          /\ max_tokens = ConfiguredMaxTokens(p, m)
          /\ config_max_input_tokens = ConfiguredMaxTokens(p, m)
          /\ llm_max_tokens = ConfiguredMaxTokens(p, m)
    /\ config_file_ceiling = NotConfigured
    /\ conversation = <<>> /\ split_on_scenes = TRUE /\ context_exchanges = 0
    /\ input_kind = "list" /\ output_writable = TRUE /\ json_tokens = 0
    /\ TokenCounterFresh
    /\ RunIdle
    /\ pc = "tracker"

TrackerAddUsage ==
    /\ pc = "tracker"
    /\ Len(usage_log) < MaxCalls
    /\ \E in_tokens \in TokenSamples : \E out_tokens \in TokenSamples :
          add_usage(in_tokens, out_tokens)
    /\ UNCHANGED <<inputVars, logVars, providerVars, runVars>>

\* get_running_totals() is called between the add_usage calls: it builds
\* its dictionary and assigns to nothing; the call is noted once.
TrackerGetRunningTotals ==
    /\ pc = "tracker"
    /\ events = <<>>
    /\ LET running == get_running_totals
       IN events' = <<<<"get_running_totals", running.total_tokens>>>>
    /\ UNCHANGED <<inputVars, logVars, providerVars, trackerVars, usage_log,
                   pc, chunk_boundaries, chunks, i, prompt, input_tokens,
                   narrative_part, narrative_parts, narrative, output_file,
                   exit_code, error>>

NextTracker ==
    \/ TrackerAddUsage
    \/ TrackerGetRunningTotals

SpecTracker == InitTracker /\ [][NextTracker]_vars

(***************************************************************************)
(* A whole run: main, ConversationProcessor.process_conversation.          *)
(***************************************************************************)
\* The methods TokenCounter defines.
TokenCounterMethods ==
    {"add_usage", "get_running_totals", "count_conversation_tokens",
     "estimate_chunks_needed", "count_tokens", "will_fit_in_context"}

\* The texts a generation call returns, and the models of a run.
GenTexts == {<<"a">>, <<"b", "c">>}
RunModels == AllModels \cup {"no-such-model"}
RunContexts == {0, 2}

\* count_tokens of a generated text.
count_tokens(text) == Len(text)

\* The tokenizer's count for a prompt: small, or one token under or over
\* 80% of the ceiling.
PromptTokenSamples == {1, EffectiveLimit - 1, EffectiveLimit + 1}

\* The text _get_system_prompt returns, by its first words.
_get_system_prompt == "You are a skilled narrative writer"

\* self.llm.generate(prompt, system_prompt): what the provider is given.
generate(user_prompt, system_prompt) ==
    generate_calls' = Append(generate_calls,
                             [prompt |-> user_prompt,
                              system_prompt |-> system_prompt])

\* A mutant: the closing instruction is chosen by the first-chunk flag.
_create_narrative_prompt_first_flag(chunk, is_first_chunk, is_last_chunk) ==
    [context |-> chunk.context,
     exchanges |-> chunk.exchanges,
     start_instruction |->
        IF is_first_chunk THEN "Begin the story naturally"
        ELSE "Continue the narrative seamlessly from the previous section",
     end_instruction |->
        IF is_first_chunk THEN "Conclude the story appropriately"
        ELSE "Lead naturally into the next section"]

_create_narrative_prompt(chunk, is_first_chunk, is_last_chunk) ==
    [context |-> chunk.context,
     exchanges |-> chunk.exchanges,
     start_instruction |->
        IF is_first_chunk THEN "Begin the story naturally"
        ELSE "Continue the narrative seamlessly from the previous section",
     end_instruction |->
        IF is_last_chunk THEN "Conclude the story appropriately"
        ELSE "Lead naturally into the next section"]

\* "".join(parts)
RECURSIVE JoinParts(_)
JoinParts(parts) ==
    IF parts = <<>> THEN <<>> ELSE Head(parts) \o JoinParts(Tail(parts))

\* The tokenizer's count for json.dumps(conversation): a token for "[]",
\* else at the 80% limit of the model's ceiling or one above it.
JsonTokenSamples(m, conv) ==
    IF m \in AllModels /\ conv # <<>>
    THEN LET p == CHOOSE q \in PROVIDERS : m \in available_models[q]
             limit == (ConfiguredMaxTokens(p, m) * 8) \div 10
         IN {limit, limit + 1}
    ELSE {1}

InitRun ==
    /\ model_arg \in RunModels
    /\ output_writable \in BOOLEAN
    /\ \/ /\ input_kind \in {"missing", "malformed", "object"}
          /\ conversation = <<>>
          /\ json_tokens = 0
          /\ split_on_scenes = TRUE
          /\ context_exchanges = 2
       \/ /\ input_kind = "list"
          /\ conversation \in SeqsUpTo(RunExchangePool, MaxRunExchanges)
          /\ json_tokens \in JsonTokenSamples(model_arg, conversation)
          /\ split_on_scenes \in BOOLEAN
          /\ context_exchanges \in RunContexts
    /\ provider = "" /\ model_version = "" /\ max_tokens = 0
    /\ config_file_ceiling = NotConfigured
    /\ config_max_input_tokens = config_file_ceiling
    /\ llm_max_tokens = 0
    /\ TokenCounterFresh
    /\ RunIdle
    /\ pc = "parse"

\* An exception reaches main's handlers: every one of them returns 1.
Abort(exception) ==
    /\ error' = exception
    /\ exit_code' = 1
    /\ pc' = "done"

\* The model lists parse_args can offer as choices of --model: the models
\* of ./config.json when that is the configuration of the run, the
\* fallback when it cannot be loaded, or a list with a model that the
\* configuration of the run does not have.
ArgChoices == {AllModels, {"gpt-4o", "gpt-4o-mini"}, RunModels}

\* parse_args: argparse ends the process with status 2 when args.model is
\* not one of the choices (SystemExit passes main's handlers).
ParseArgs ==
    /\ pc = "parse"
    /\ \E all_models \in ArgChoices :
          IF model_arg \in all_models
          THEN pc' = "main" /\ UNCHANGED <<error, exit_code>>
          ELSE /\ error' = "SystemExit: invalid choice"
               /\ exit_code' = 2
               /\ pc' = "done"
    /\ UNCHANGED <<inputVars, logVars, providerVars, trackerVars, usage_log,
                   chunk_boundaries, chunks, i, prompt, input_tokens,
                   narrative_part, narrative_parts, narrative, output_file,
                   events>>

\* A mutant: a model that no provider lists is given to the default
\* provider.
GetProviderForModel_default ==
    /\ pc = "main"
    /\ provider' = IF \E p \in PROVIDERS : model_arg \in available_models[p]
                   THEN CHOOSE p \in PROVIDERS :
                           model_arg \in available_models[p]
                   ELSE "openai"
    /\ model_version' = IF model_arg \in AllModels THEN model_arg
                        ELSE "gpt-4o"
    /\ pc' = "construct"
    /\ UNCHANGED <<error, exit_code>>
    /\ UNCHANGED <<inputVars, logVars, max_tokens, config_max_input_tokens,
                   llm_max_tokens, trackerVars, usage_log, chunk_boundaries,
                   chunks, i, prompt, input_tokens, narrative_part,
                   narrative_parts, narrative, output_file, events>>

\* main: get_provider_for_model, then the configuration is overridden.
GetProviderForModel ==
    /\ pc = "main"
    /\ IF \E p \in PROVIDERS : model_arg \in available_models[p]
       THEN /\ provider' = CHOOSE p \in PROVIDERS :
                              model_arg \in available_models[p]
            /\ model_version' = model_arg
            /\ pc' = "construct"
            /\ UNCHANGED <<error, exit_code>>
       ELSE /\ Abort("ValueError: model not found")
            /\ UNCHANGED <<provider, model_version>>
    /\ UNCHANGED <<inputVars, logVars, max_tokens, config_max_input_tokens,
                   llm_max_tokens, trackerVars, usage_log, chunk_boundaries,
                   chunks, i, prompt, input_tokens, narrative_part,
                   narrative_parts, narrative, output_file, events>>

\* ConversationProcessor.__init__: self.llm = get_provider(config['llm']),
\* then self.token_counter = TokenCounter(config['llm']) on the same
\* dictionary.
ConstructProcessor ==
    /\ pc = "construct"
    /\ LET llm == LLMProviderInit(config_max_input_tokens, provider,
                                  model_version)
           token_counter == TokenCounterInit(llm.config, provider,
                                             model_version)
       IN /\ llm_max_tokens' = llm.max_tokens
          /\ max_tokens' = token_counter.max_tokens
          /\ config_max_input_tokens' = token_counter.config
    /\ events' = Append(events, <<"get_provider", 0>>)
    /\ pc' = "load"
    /\ UNCHANGED <<inputVars, logVars, provider, model_version, trackerVars,
                   usage_log, chunk_boundaries, chunks, i, prompt,
                   input_tokens, narrative_part, narrative_parts, narrative,
                   output_file, exit_code, error>>

(***************************************************************************)
(* The constructor alone: ConversationProcessor(config) for every model    *)
(* and several max_input_tokens entries of the configuration file.         *)
(***************************************************************************)
ConfigCeilingSamples == {NotConfigured, 5, 128000, 200000, 3000000}

InitConstruct ==
    /\ \E p \in PROVIDERS : \E m \in ModelsOf(p) :
          /\ provider = p
          /\ model_version = m
          /\ model_arg = m
    /\ config_file_ceiling \in ConfigCeilingSamples
    /\ config_max_input_tokens = config_file_ceiling
    /\ max_tokens = 0
    /\ llm_max_tokens = 0
    /\ conversation = <<>> /\ split_on_scenes = TRUE /\ context_exchanges = 2
    /\ input_kind = "list" /\ output_writable = TRUE /\ json_tokens = 1
    /\ TokenCounterFresh
    /\ RunIdle
    /\ pc = "construct"

NextConstruct == ConstructProcessor

SpecConstruct == InitConstruct /\ [][NextConstruct]_vars

\* A mutant: the isinstance check is missing, and a top-level object goes
\* on to the fit check.
LoadConversation_unchecked ==
    /\ pc = "load"
    /\ CASE input_kind = "missing" -> Abort("FileNotFoundError")
         [] input_kind = "malformed" -> Abort("JSONDecodeError")
         [] OTHER -> pc' = "fit" /\ UNCHANGED <<error, exit_code>>
    /\ UNCHANGED <<inputVars, logVars, providerVars, trackerVars, usage_log,
                   chunk_boundaries, chunks, i, prompt, input_tokens,
                   narrative_part, narrative_parts, narrative, output_file,
                   events>>

\* process_conversation: load_json and the isinstance check.
LoadConversation ==
    /\ pc = "load"
    /\ CASE input_kind = "missing" -> Abort("FileNotFoundError")
         [] input_kind = "malformed" -> Abort("JSONDecodeError")
         [] input_kind = "object" -> Abort("ValueError: expected list")
         [] OTHER -> pc' = "fit" /\ UNCHANGED <<error, exit_code>>
    /\ UNCHANGED <<inputVars, logVars, providerVars, trackerVars, usage_log,
                   chunk_boundaries, chunks, i, prompt, input_tokens,
                   narrative_part, narrative_parts, narrative, output_file,
                   events>>

\* if self.token_counter.will_fit_in_context(json.dumps(conversation))
FitCheck ==
    /\ pc = "fit"
    /\ pc' = IF will_fit_in_context(json_tokens) THEN "single_prompt"
             ELSE "chunk"
    /\ events' = Append(events, <<"will_fit_in_context", 0>>)
    /\ UNCHANGED <<inputVars, logVars, providerVars, trackerVars, usage_log,
                   chunk_boundaries, chunks, i, prompt, input_tokens,
                   narrative_part, narrative_parts, narrative, output_file,
                   exit_code, error>>

\* ---- the single-shot path
SinglePrompt ==
    /\ pc = "single_prompt"
    /\ prompt' = _create_narrative_prompt(
                    [exchanges |-> conversation, context |-> <<>>], TRUE, TRUE)
    /\ \E n \in PromptTokenSamples : input_tokens' = n
    /\ events' = Append(events, <<"prompt", 0>>)
    /\ pc' = "single_generate"
    /\ UNCHANGED <<inputVars, logVars, providerVars, trackerVars, usage_log,
                   chunk_boundaries, chunks, i, narrative_part,
                   narrative_parts, narrative, output_file, exit_code, error>>

\* self.llm.generate(prompt, system_prompt) is called ...
SingleGenerateCall ==
    /\ pc = "single_generate"
    /\ generate(prompt, _get_system_prompt)
    /\ events' = Append(events, <<"generate", 0>>)
    /\ pc' = "single_wait"
    /\ UNCHANGED <<inputVars, warnings, providerVars, trackerVars, usage_log,
                   chunk_boundaries, chunks, i, prompt, input_tokens,
                   narrative_part, narrative_parts, narrative, output_file,
                   exit_code, error>>

\* ... and returns a text,
SingleGenerateReturn ==
    /\ pc = "single_wait"
    /\ \E text \in GenTexts : narrative' = text
    /\ events' = Append(events, <<"return", 0>>)
    /\ pc' = "single_usage"
    /\ UNCHANGED <<inputVars, logVars, providerVars, trackerVars, usage_log,
                   chunk_boundaries, chunks, i, prompt, input_tokens,
                   narrative_part, narrative_parts, output_file, exit_code,
                   error>>

\* ... or raises.
SingleGenerateFail ==
    /\ pc = "single_wait"
    /\ events' = Append(events, <<"raise", 0>>)
    /\ Abort("Exception: API error")
    /\ UNCHANGED <<inputVars, logVars, providerVars, trackerVars, usage_log,
                   chunk_boundaries, chunks, i, prompt, input_tokens,
                   narrative_part, narrative_parts, narrative, output_file>>

SingleAddUsage ==
    /\ pc = "single_usage"
    /\ add_usage(input_tokens, count_tokens(narrative))
    /\ events' = Append(events, <<"add_usage", 0>>)
    /\ pc' = "single_report"
    /\ UNCHANGED <<inputVars, logVars, providerVars, chunk_boundaries, chunks,
                   i, prompt, input_tokens, narrative_part, narrative_parts,
                   narrative, output_file, exit_code, error>>

\* usage = self.token_counter.get_cumulative_usage(), and the prints.
SingleReport ==
    /\ pc = "single_report"
    /\ IF "get_cumulative_usage" \in TokenCounterMethods
       THEN /\ events' = Append(events, <<"report", 0>>)
            /\ pc' = "save"
            /\ UNCHANGED <<error, exit_code>>
       ELSE /\ Abort("AttributeError: get_cumulative_usage")
            /\ UNCHANGED events
    /\ UNCHANGED <<inputVars, logVars, providerVars, trackerVars, usage_log,
                   chunk_boundaries, chunks, i, prompt, input_tokens,
                   narrative_part, narrative_parts, narrative, output_file>>

\* A mutant: a conversation over the budget is cut into chunks of one
\* exchange, whatever its cues.
ChunkConversation_by_size ==
    /\ pc = "chunk"
    /\ LET boundaries == [k \in 1..Len(conversation) |-> <<k - 1, k>>]
       IN /\ chunk_boundaries' = boundaries
          /\ chunks' = ChunksOf(conversation, boundaries)
    /\ narrative_parts' = <<>>
    /\ i' = 0
    /\ events' = Append(events, <<"chunk_conversation", 0>>)
    /\ pc' = "loop"
    /\ UNCHANGED <<inputVars, logVars, providerVars, trackerVars, usage_log,
                   prompt, input_tokens, narrative_part, narrative,
                   output_file, exit_code, error>>

\* ---- the chunked path
ChunkConversation ==
    /\ pc = "chunk"
    /\ chunk_boundaries' = find_chunk_boundaries(conversation)
    /\ chunks' = chunk_conversation(conversation)
    /\ narrative_parts' = <<>>
    /\ i' = 0
    /\ events' = Append(events, <<"chunk_conversation", 0>>)
    /\ pc' = "loop"
    /\ UNCHANGED <<inputVars, logVars, providerVars, trackerVars, usage_log,
                   prompt, input_tokens, narrative_part, narrative,
                   output_file, exit_code, error>>

\* A mutant: the text generated for the chunk before is put into the
\* context of the prompt.
ChunkPrompt_with_previous ==
    /\ pc = "loop"
    /\ i < Len(chunks)
    /\ LET chunk == At(chunks, i)
           fed == IF i = 0 THEN chunk
                  ELSE [exchanges |-> chunk.exchanges,
                        context |-> Append(chunk.context,
                                           [prompt |-> <<>>,
                                            response |-> narrative_part])]
       IN prompt' = _create_narrative_prompt(fed, i = 0, i = Len(chunks) - 1)
    /\ \E n \in PromptTokenSamples : input_tokens' = n
    /\ events' = Append(events, <<"prompt", i>>)
    /\ pc' = "chunk_generate"
    /\ UNCHANGED <<inputVars, logVars, providerVars, trackerVars, usage_log,
                   chunk_boundaries, chunks, i, narrative_part,
                   narrative_parts, narrative, output_file, exit_code, error>>

\* for i, chunk in enumerate(chunks): the prompt and its token count.
ChunkPrompt ==
    /\ pc = "loop"
    /\ i < Len(chunks)
    /\ prompt' = _create_narrative_prompt(At(chunks, i), i = 0,
                                          i = Len(chunks) - 1)
    /\ \E n \in PromptTokenSamples : input_tokens' = n
    /\ events' = Append(events, <<"prompt", i>>)
    /\ pc' = "chunk_generate"
    /\ UNCHANGED <<inputVars, logVars, providerVars, trackerVars, usage_log,
                   chunk_boundaries, chunks, i, narrative_part,
                   narrative_parts, narrative, output_file, exit_code, error>>

ChunkGenerateCall ==
    /\ pc = "chunk_generate"
    /\ generate(prompt, _get_system_prompt)
    /\ events' = Append(events, <<"generate", i>>)
    /\ pc' = "chunk_wait"
    /\ UNCHANGED <<inputVars, warnings, providerVars, trackerVars, usage_log,
                   chunk_boundaries, chunks, i, prompt, input_tokens,
                   narrative_part, narrative_parts, narrative, output_file,
                   exit_code, error>>

ChunkGenerateReturn ==
    /\ pc = "chunk_wait"
    /\ \E text \in GenTexts :
          /\ narrative_part' = text
          /\ narrative_parts' = Append(narrative_parts, text)
    /\ events' = Append(events, <<"return", i>>)
    /\ pc' = "chunk_usage"
    /\ UNCHANGED <<inputVars, logVars, providerVars, trackerVars, usage_log,
                   chunk_boundaries, chunks, i, prompt, input_tokens,
                   narrative, output_file, exit_code, error>>

\* A mutant: the failure is swallowed and the loop goes on.
AfterGenerateFailure_continue ==
    /\ pc' = "loop"
    /\ i' = i + 1
    /\ UNCHANGED <<error, exit_code>>

\* Where the run goes when the generation call of a chunk raises: nothing
\* in process_conversation catches it.
AfterGenerateFailure ==
    /\ Abort("Exception: API error")
    /\ UNCHANGED i

ChunkGenerateFail ==
    /\ pc = "chunk_wait"
    /\ events' = Append(events, <<"raise", i>>)
    /\ AfterGenerateFailure
    /\ UNCHANGED <<inputVars, logVars, providerVars, trackerVars, usage_log,
                   chunk_boundaries, chunks, prompt, input_tokens,
                   narrative_part, narrative_parts, narrative, output_file>>

\* A mutant: the usage of a chunk is not recorded.
ChunkAddUsage_dropped ==
    /\ pc = "chunk_usage"
    /\ i' = i + 1
    /\ pc' = "loop"
    /\ UNCHANGED <<inputVars, logVars, providerVars, trackerVars, usage_log,
                   events, chunk_boundaries, chunks, prompt, input_tokens,
                   narrative_part, narrative_parts, narrative, output_file,
                   exit_code, error>>

\* A mutant: the warning is printed from 80% on.
WarnAboutContext_from80(context) ==
    IF context.max_used * 100 >= 80 * context.max_allowed
    THEN warnings' = Append(warnings, [max_used |-> context.max_used,
                                       max_allowed |-> context.max_allowed,
                                       at_tokens |-> context.at_tokens])
    ELSE UNCHANGED warnings

\* if context['max_percent'] > 80: the two lines of the warning, which name
\* the percentage (max_used of max_allowed) and the position of the peak.
WarnAboutContext(context) ==
    IF context.max_used * 100 > 80 * context.max_allowed
    THEN warnings' = Append(warnings, [max_used |-> context.max_used,
                                       max_allowed |-> context.max_allowed,
                                       at_tokens |-> context.at_tokens])
    ELSE UNCHANGED warnings

\* add_usage, the prints of the chunk, and on to the next chunk.
ChunkAddUsage ==
    /\ pc = "chunk_usage"
    /\ add_usage(input_tokens, count_tokens(narrative_part))
    /\ LET st == AddUsageState(input_tokens, count_tokens(narrative_part))
       IN WarnAboutContext([max_used |-> st[4], max_allowed |-> max_tokens,
                            at_tokens |-> st[5]])
    /\ events' = Append(events, <<"add_usage", i>>)
    /\ i' = i + 1
    /\ pc' = "loop"
    /\ UNCHANGED <<inputVars, generate_calls, providerVars, chunk_boundaries,
                   chunks, prompt, input_tokens, narrative_part,
                   narrative_parts, narrative, output_file, exit_code, error>>

\* The loop is over.
LoopExit ==
    /\ pc = "loop"
    /\ i >= Len(chunks)
    /\ pc' = "save"
    /\ UNCHANGED <<inputVars, logVars, providerVars, trackerVars, usage_log,
                   chunk_boundaries, chunks, i, prompt, input_tokens,
                   narrative_part, narrative_parts, narrative, output_file,
                   exit_code, error, events>>

\* FileHandler.save_narrative(narrative, output_file), and main's return.
SaveNarrative ==
    /\ pc = "save"
    /\ IF narrative = Unbound
       THEN /\ Abort("UnboundLocalError: narrative")
            /\ UNCHANGED output_file
       ELSE IF ~output_writable
       THEN /\ Abort("IOError")
            /\ UNCHANGED output_file
       ELSE /\ output_file' = narrative
            /\ exit_code' = 0
            /\ pc' = "done"
            /\ UNCHANGED error
    /\ events' = Append(events, <<"save_narrative", 0>>)
    /\ UNCHANGED <<inputVars, logVars, providerVars, trackerVars, usage_log,
                   chunk_boundaries, chunks, i, prompt, input_tokens,
                   narrative_part, narrative_parts, narrative>>

Next ==
    \/ ParseArgs
    \/ GetProviderForModel
    \/ ConstructProcessor
    \/ LoadConversation
    \/ FitCheck
    \/ SinglePrompt
    \/ SingleGenerateCall
    \/ SingleGenerateReturn
    \/ SingleGenerateFail
    \/ SingleAddUsage
    \/ SingleReport
    \/ ChunkConversation
    \/ ChunkPrompt
    \/ ChunkGenerateCall
    \/ ChunkGenerateReturn
    \/ ChunkGenerateFail
    \/ ChunkAddUsage
    \/ LoopExit
    \/ SaveNarrative

Spec == InitRun /\ [][Next]_vars

(***************************************************************************)
(* Claims about the chunker.                                               *)
(***************************************************************************)
\* Whether an exchange's combined prompt and response text carries a cue.
HasCue(exchange) == PatternSearch(JoinSpace(exchange.prompt, exchange.response))

\* C1: the (start, end) pairs of find_chunk_boundaries partition [0, len)
\* in order: the first starts at 0, each later one starts where the one
\* before it ends, the last ends at len, and every pair has start < end.
C1_Partition ==
    pc = "chunked" =>
        LET b == chunk_boundaries
            n == Len(conversation)
        IN /\ (n = 0) = (b = <<>>)
           /\ n > 0 => b[1][1] = 0 /\ b[Len(b)][2] = n
           /\ \A k \in 1..Len(b) : b[k][1] < b[k][2]
           /\ \A k \in 2..Len(b) : b[k][1] = b[k - 1][2]
           /\ \A k \in 1..Len(b) :
                 chunks[k].exchanges = Slice(conversation, b[k][1], b[k][2])

C1_Witness ==
    /\ pc = "chunked"
    /\ Len(chunk_boundaries) >= 3
    /\ split_on_scenes

\* C3 (as claimed): the first chunk's context is empty, and the context of
\* each later chunk is the trailing context_exchanges exchanges of the
\* chunk before it, or all of that chunk when it is shorter, so that the
\* context never reaches back before the preceding chunk's start.
C3_ContextInsidePrevious ==
    pc = "chunked" =>
        /\ Len(chunks) >= 1 => chunks[1].context = <<>>
        /\ \A k \in 2..Len(chunks) :
              LET prev_start == chunk_boundaries[k - 1][1]
                  prev_end == chunk_boundaries[k - 1][2]
                  take == Min(context_exchanges, prev_end - prev_start)
              IN /\ chunks[k].context
                       = Slice(conversation, prev_end - take, prev_end)
                 /\ prev_end - Len(chunks[k].context) >= prev_start

\* C10 (as claimed): with splitting enabled and 3 exchanges of which only
\* the one at index 1 carries a cue, the chunks are [0,2) and [2,3).
C10_CueAtIndex1 ==
    (/\ pc = "chunked"
     /\ split_on_scenes
     /\ Len(conversation) = 3
     /\ HasCue(At(conversation, 1))
     /\ ~HasCue(At(conversation, 0))
     /\ ~HasCue(At(conversation, 2)))
    => /\ chunk_boundaries = <<<<0, 2>>, <<2, 3>>>>
       /\ chunks[2].context
             = Slice(conversation, Max(2 - context_exchanges, 0), 2)

\* C10 (amended): with splitting enabled and 3 exchanges of which only the
\* one at index 2 carries a cue, the chunks are [0,2) and [2,3), and the
\* second chunk's context is the exchanges before index 2, at most
\* context_exchanges of them.
C10_CueAtIndex2 ==
    (/\ pc = "chunked"
     /\ split_on_scenes
     /\ Len(conversation) = 3
     /\ HasCue(At(conversation, 2))
     /\ ~HasCue(At(conversation, 0))
     /\ ~HasCue(At(conversation, 1)))
    => /\ chunk_boundaries = <<<<0, 2>>, <<2, 3>>>>
       /\ Len(chunks) = 2
       /\ chunks[1] = [exchanges |-> Slice(conversation, 0, 2),
                       context |-> <<>>]
       /\ chunks[2].exchanges = Slice(conversation, 2, 3)
       /\ chunks[2].context
             = Slice(conversation, Max(2 - context_exchanges, 0), 2)
       /\ Len(chunks[2].context) <= context_exchanges

C10_Witness ==
    /\ pc = "chunked"
    /\ split_on_scenes
    /\ Len(conversation) = 3
    /\ HasCue(At(conversation, 2))
    /\ ~HasCue(At(conversation, 0))
    /\ ~HasCue(At(conversation, 1))
    /\ context_exchanges = 1
    /\ Len(chunks) = 2
    /\ chunks[2].context = <<At(conversation, 1)>>

\* The positions find_chunk_boundaries tests are the pairs (k, k + 1) for
\* 1 <= k <= len - 2, and the cue is looked for in exchange k + 1: no scene
\* change is detected when none of exchanges 2 .. len - 1 carries a cue.
NoCueAtTestedPositions ==
    \A k \in 2..(Len(conversation) - 1) : ~HasCue(At(conversation, k))

\* C11: for a non-empty conversation, when splitting is disabled or no
\* scene change is detected at a tested position, chunk_conversation gives
\* one chunk: the whole conversation [0, len), with empty context.
C11_OneChunk ==
    (/\ pc = "chunked"
     /\ Len(conversation) > 0
     /\ ~split_on_scenes \/ NoCueAtTestedPositions)
    => /\ chunk_boundaries = <<<<0, Len(conversation)>>>>
       /\ chunks = <<[exchanges |-> conversation, context |-> <<>>]>>

\* Splitting is disabled and the conversation is full of cues.
C11_Witness ==
    /\ pc = "chunked"
    /\ Len(conversation) = 4
    /\ ~split_on_scenes
    /\ ~NoCueAtTestedPositions
    /\ context_exchanges > 0
    /\ chunks = <<[exchanges |-> conversation, context |-> <<>>]>>

\* Splitting is enabled and the only cues are where no test looks.
C11_WitnessUntested ==
    /\ pc = "chunked"
    /\ Len(conversation) = 4
    /\ split_on_scenes
    /\ HasCue(At(conversation, 0))
    /\ HasCue(At(conversation, 1))
    /\ NoCueAtTestedPositions
    /\ Len(chunks) = 1

\* One chunk ends at b (exclusive) and the next starts at b.
BoundaryAt(b) ==
    \E k \in 1..(Len(chunk_boundaries) - 1) :
        /\ chunk_boundaries[k][2] = b
        /\ chunk_boundaries[k + 1][1] = b

\* C22: with splitting enabled there is a chunk boundary at index b exactly
\* when 2 <= b <= len - 1 and exchange b's prompt and response text carries
\* a cue; nothing else moves a boundary: not the text of exchanges 0 and 1,
\* not the current exchange of a tested pair, not context_exchanges.
C22_BoundaryIffCueInNext ==
    (pc = "chunked" /\ split_on_scenes) =>
        \A b \in 0..Len(conversation) :
            BoundaryAt(b) = (/\ 2 <= b
                             /\ b <= Len(conversation) - 1
                             /\ HasCue(At(conversation, b)))

\* Cues in exchanges 0, 1 and 3: the one boundary is at 3.
C22_Witness ==
    /\ pc = "chunked"
    /\ split_on_scenes
    /\ Len(conversation) = 4
    /\ HasCue(At(conversation, 0))
    /\ HasCue(At(conversation, 1))
    /\ ~HasCue(At(conversation, 2))
    /\ HasCue(At(conversation, 3))
    /\ chunk_boundaries = <<<<0, 3>>, <<3, 4>>>>

\* C23: the context of a chunk after the first, whose predecessor ended at
\* previous_chunk_end, is the exchanges at the indices
\* [max(previous_chunk_end - context_exchanges, 0), previous_chunk_end) in
\* conversation order: min(context_exchanges, previous_chunk_end) of them,
\* never more than context_exchanges, none when context_exchanges = 0; and
\* the first chunk's context is empty whatever context_exchanges is.
C23_ContextWindow ==
    pc = "chunked" =>
        /\ Len(chunks) >= 1 => chunks[1].context = <<>>
        /\ \A k \in 2..Len(chunks) :
              LET previous_chunk_end == chunk_boundaries[k - 1][2]
                  first == IF previous_chunk_end - context_exchanges > 0
                           THEN previous_chunk_end - context_exchanges
                           ELSE 0
                  context == chunks[k].context
              IN /\ context = [j \in 1..(previous_chunk_end - first) |->
                                  conversation[first + j]]
                 /\ Len(context) = IF context_exchanges <= previous_chunk_end
                                   THEN context_exchanges
                                   ELSE previous_chunk_end
                 /\ Len(context) <= context_exchanges
                 /\ context_exchanges = 0 => context = <<>>

\* Three chunks with context_exchanges = 3: the second chunk gets the two
\* exchanges there are before it, the third gets three.
C23_Witness ==
    /\ pc = "chunked"
    /\ context_exchanges = 3
    /\ chunk_boundaries = <<<<0, 2>>, <<2, 3>>, <<3, 4>>>>
    /\ chunks[1].context = <<>>
    /\ chunks[2].context = SubSeq(conversation, 1, 2)
    /\ chunks[3].context = SubSeq(conversation, 1, 3)

\* With context_exchanges = 0 a later chunk has no context.
C23_WitnessNoContext ==
    /\ pc = "chunked"
    /\ context_exchanges = 0
    /\ Len(chunks) = 3
    /\ chunks[3].context = <<>>

(***************************************************************************)
(* Claims about the tracker.                                               *)
(***************************************************************************)
RECURSIVE SumOf(_, _)
SumOf(log, field) ==
    IF log = <<>> THEN 0 ELSE log[1][field] + SumOf(Tail(log), field)

\* C6: after the calls of usage_log on a fresh tracker, the cumulative
\* input is the sum of the inputs, the cumulative output the sum of the
\* outputs, and the running total_tokens the sum of both.
C6_Additive ==
    pc = "tracker" =>
        /\ total_input_tokens = SumOf(usage_log, 1)
        /\ total_output_tokens = SumOf(usage_log, 2)
        /\ get_running_totals.input_tokens = SumOf(usage_log, 1)
        /\ get_running_totals.output_tokens = SumOf(usage_log, 2)
        /\ get_running_totals.total_tokens
              = SumOf(usage_log, 1) + SumOf(usage_log, 2)

C6_Witness ==
    /\ pc = "tracker"
    /\ Len(usage_log) = 2
    /\ usage_log[1] = <<128000, 1>>
    /\ usage_log[2] = <<1, 128001>>
    /\ total_input_tokens = 128001
    /\ total_output_tokens = 128002

\* C7: an add_usage call changes the peak record only when its
\* input+output is strictly above the recorded peak; then the peak is that
\* sum and the position is the cumulative total after the call.  At or
\* below the peak, the peak and the position stay as they are.
C7_PeakOnlyWhenExceeded ==
    [][Len(usage_log') = Len(usage_log) + 1 =>
          LET call == usage_log'[Len(usage_log')]
              chunk_total == call[1] + call[2]
          IN IF chunk_total > max_context_used
             THEN /\ max_context_used' = chunk_total
                  /\ max_context_chunk'
                        = total_input_tokens' + total_output_tokens'
             ELSE UNCHANGED <<max_context_used, max_context_chunk>>]_vars

\* A tie has happened and left the position where the first peak put it.
C7_Witness ==
    /\ pc = "tracker"
    /\ Len(usage_log) = 2
    /\ usage_log[1] = <<1, 0>>
    /\ usage_log[2] = <<0, 1>>
    /\ max_context_used = 1
    /\ max_context_chunk = 1
    /\ total_input_tokens + total_output_tokens = 2

\* C12: for the subscription adapter (NovelAI), calculate_cost answers a
\* total of 0 for every pair of counts; after any sequence of add_usage
\* calls the cumulative cost is still 0 and get_running_totals reports the
\* subscription label as the cost, while the token counters have grown by
\* the reported counts.
C12_SubscriptionCostZero ==
    (pc = "tracker" /\ provider = "novelai") =>
        /\ \A a \in TokenSamples : \A b \in TokenSamples :
              /\ calculate_cost(a, b).total_cost = 0
              /\ calculate_cost(a, b).input_cost = 0
              /\ calculate_cost(a, b).output_cost = 0
              /\ calculate_cost(a, b).subscription = <<"$20/month unlimited">>
        /\ total_cost = 0
        /\ get_running_totals.cost = <<"$20/month unlimited">>
        /\ total_input_tokens = SumOf(usage_log, 1)
        /\ total_output_tokens = SumOf(usage_log, 2)
        /\ get_running_totals.total_tokens
              = SumOf(usage_log, 1) + SumOf(usage_log, 2)

C12_Witness ==
    /\ pc = "tracker"
    /\ provider = "novelai"
    /\ model_version = "kayra"
    /\ usage_log = <<<<128001, 1>>, <<1, 128000>>>>
    /\ total_cost = 0
    /\ total_input_tokens = 128002
    /\ total_output_tokens = 128001
    /\ get_running_totals.cost = SubscriptionLabel

\* The tiered price tables of GeminiProvider.MODEL_CONFIGS, in units per
\* token: 0.000075 / 0.00015 and 0.0003 / 0.0006 dollars per 1e6 tokens
\* for gemini-1.5-flash, 0.00125 / 0.0025 and 0.005 / 0.01 for
\* gemini-1.5-pro.
TieredModels == {"gemini-1.5-flash", "gemini-1.5-pro"}
TierPrice(model, side, count) ==
    LET standard == count <= 128000
    IN CASE model = "gemini-1.5-flash" /\ side = "input" ->
               IF standard THEN 3 ELSE 6
         [] model = "gemini-1.5-flash" /\ side = "output" ->
               IF standard THEN 12 ELSE 24
         [] model = "gemini-1.5-pro" /\ side = "input" ->
               IF standard THEN 50 ELSE 100
         [] model = "gemini-1.5-pro" /\ side = "output" ->
               IF standard THEN 200 ELSE 400

\* C13: for the tiered models, calculate_cost prices the whole input count
\* at the standard input price up to 128000 tokens and at the extended one
\* above, the output count likewise, each side by its own count, and the
\* total is the sum of both sides; a tracker's first call costs that much.
C13_TieredBySide ==
    (pc = "tracker" /\ model_version \in TieredModels) =>
        /\ \A a \in TokenSamples : \A b \in TokenSamples :
              LET costs == calculate_cost(a, b)
              IN /\ costs.input_cost = a * TierPrice(model_version, "input", a)
                 /\ costs.output_cost
                       = b * TierPrice(model_version, "output", b)
                 /\ costs.total_cost = costs.input_cost + costs.output_cost
        /\ Len(usage_log) = 1 =>
              total_cost
                 = usage_log[1][1]
                      * TierPrice(model_version, "input", usage_log[1][1])
                   + usage_log[1][2]
                      * TierPrice(model_version, "output", usage_log[1][2])

\* An input above the threshold with an output below it (12800100 units
\* for the input at the extended price, 25599800 for the output at the
\* standard one), then a call exactly at the threshold on both sides.
C13_Witness ==
    /\ pc = "tracker"
    /\ model_version = "gemini-1.5-pro"
    /\ usage_log = <<<<128001, 127999>>, <<128000, 128000>>>>
    /\ total_cost = 12800100 + 25599800 + 128000 * 50 + 128000 * 200

\* The flat price tables of the MODEL_CONFIGS (input_price, output_price),
\* in units per token; 40000 units are a millionth of a dollar.
FlatModels == {"gpt-4o", "gpt-4o-mini", "claude-3-opus-latest",
               "claude-3-sonnet-latest", "claude-3-haiku-latest",
               "gemini-2.0-flash"}
FlatPrice(model, side) ==
    LET prices == CASE model = "gpt-4o" -> <<100, 400>>
                    [] model = "gpt-4o-mini" -> <<6, 24>>
                    [] model = "claude-3-opus-latest" -> <<600, 3000>>
                    [] model = "claude-3-sonnet-latest" -> <<120, 600>>
                    [] model = "claude-3-haiku-latest" -> <<32, 160>>
                    [] model = "gemini-2.0-flash" -> <<4, 16>>
    IN IF side = "input" THEN prices[1] ELSE prices[2]
MicroDollars(units) == units \div 40000

\* C14 (as claimed): for the flat models each side costs its count times the
\* model's price of that side, independently of the other side, and the
\* total is the sum; and at gpt-4o's documented prices 1,000,000 input
\* tokens cost $2.50 and 1,000,000 output tokens cost $10.00.
C14_FlatPerMillion ==
    (pc = "tracker" /\ model_version \in FlatModels) =>
        /\ \A a \in TokenSamples : \A b \in TokenSamples :
              LET costs == calculate_cost(a, b)
              IN /\ costs.input_cost = a * FlatPrice(model_version, "input")
                 /\ costs.output_cost = b * FlatPrice(model_version, "output")
                 /\ costs.total_cost = costs.input_cost + costs.output_cost
        /\ model_version = "gpt-4o" =>
              /\ MicroDollars(calculate_cost(1000000, 0).total_cost)
                    = 2500000
              /\ MicroDollars(calculate_cost(0, 1000000).total_cost)
                    = 10000000

\* What the code computes for those two calls: $0.0025 and $0.01.
C14_CodeCharges ==
    (pc = "tracker" /\ model_version = "gpt-4o") =>
        /\ MicroDollars(calculate_cost(1000000, 0).total_cost) = 2500
        /\ MicroDollars(calculate_cost(0, 1000000).total_cost) = 10000

\* The price of a call's side by the tables: the tier of a tiered model is
\* chosen by the call's own count.
PriceOfCall(side, count) ==
    IF model_version \in TieredModels
    THEN TierPrice(model_version, side, count)
    ELSE FlatPrice(model_version, side)

RECURSIVE SumOfCallCosts(_)
SumOfCallCosts(log) ==
    IF log = <<>> THEN 0
    ELSE log[1][1] * PriceOfCall("input", log[1][1])
            + log[1][2] * PriceOfCall("output", log[1][2])
            + SumOfCallCosts(Tail(log))

RECURSIVE SumOfCalculatedCosts(_)
SumOfCalculatedCosts(log) ==
    IF log = <<>> THEN 0
    ELSE calculate_cost(log[1][1], log[1][2]).total_cost
            + SumOfCalculatedCosts(Tail(log))

\* C26: for a metered adapter, after any sequence of add_usage calls the
\* cumulative cost that the tracker holds and that get_running_totals
\* reports (as "$%.4f") is the sum of the calls'
\* calculate_cost(i_k, o_k).total_cost;
\* the cost computed on the cumulative totals only tells whether there is
\* a subscription label, so a tiered model's tier is chosen call by call.
C26_CostIsSumOfCalls ==
    (pc = "tracker" /\ provider # "novelai") =>
        /\ total_cost = SumOfCalculatedCosts(usage_log)
        /\ total_cost = SumOfCallCosts(usage_log)
        /\ get_running_totals.cost = FormatDollars4(SumOfCallCosts(usage_log))

\* Two calls of 127999 input tokens: 255998 in all, above the threshold,
\* and both priced at the standard tier.
C26_Witness ==
    /\ pc = "tracker"
    /\ model_version = "gemini-1.5-pro"
    /\ usage_log = <<<<127999, 0>>, <<127999, 0>>>>
    /\ total_input_tokens > 128000
    /\ total_cost = 2 * 127999 * 50
    /\ get_running_totals.cost = <<3>>
    /\ calculate_cost(total_input_tokens, total_output_tokens).total_cost
          = 255998 * 100
    /\ FormatDollars4(255998 * 100) = <<6>>

\* The largest input+output of a single call of the log, 0 for no call.
RECURSIVE LargestCall(_)
LargestCall(log) ==
    IF log = <<>> THEN 0
    ELSE LET rest == LargestCall(Tail(log))
             first == log[1][1] + log[1][2]
         IN IF first >= rest THEN first ELSE rest

\* C27: in every state of a tracker, max_context_used is the largest
\* input+output of a single call so far (0 when there was none) and
\* max_context_used <= max_context_chunk <= total_input_tokens +
\* total_output_tokens; no step lowers a cumulative counter, the peak or
\* the peak's position, and get_running_totals changes none of them.
C27_PeakBoundsAndMonotone ==
    /\ [](pc = "tracker" =>
             /\ max_context_used = LargestCall(usage_log)
             /\ max_context_used <= max_context_chunk
             /\ max_context_chunk <= total_input_tokens + total_output_tokens
             /\ usage_log = <<>> =>
                   /\ max_context_used = 0
                   /\ max_context_chunk = 0)
    /\ [][pc = "tracker" =>
             /\ total_input_tokens' >= total_input_tokens
             /\ total_output_tokens' >= total_output_tokens
             /\ total_cost' >= total_cost
             /\ max_context_used' >= max_context_used
             /\ max_context_chunk' >= max_context_chunk
             /\ events' # events =>
                   UNCHANGED <<trackerVars, usage_log>>]_vars

\* After a peak of 128001 at position 128001 and a smaller call,
\* get_running_totals has been called and the record is as it was.
C27_Witness ==
    /\ pc = "tracker"
    /\ usage_log = <<<<128000, 1>>, <<1, 1>>>>
    /\ events = <<<<"get_running_totals", 128003>>>>
    /\ max_context_used = 128001
    /\ max_context_chunk = 128001
    /\ total_input_tokens + total_output_tokens = 128003

(***************************************************************************)
(* Claims about a whole run.                                               *)
(***************************************************************************)
HasEvent(name) == \E j \in 1..Len(events) : events[j][1] = name
EventCount(name) == Cardinality({j \in 1..Len(events) : events[j][1] = name})
LoopEventNames == {"prompt", "generate", "return", "raise", "add_usage"}
IsLoopEvent(e) == e[1] \in LoopEventNames
LoopEvents == SelectSeq(events, IsLoopEvent)

\* The serialized conversation has been counted and is within 80% of the
\* ceiling.
FitsBudget ==
    /\ HasEvent("will_fit_in_context")
    /\ json_tokens * 10 <= max_tokens * 8

OverBudget ==
    /\ HasEvent("will_fit_in_context")
    /\ json_tokens * 10 > max_tokens * 8

\* C2: a conversation within 80% of the ceiling takes the single-shot
\* path: chunk_conversation is never called, generate is called at most
\* once and exactly once by the end of the run, and its prompt is built
\* from the whole conversation with empty context and both flags true.
C2_SingleShot ==
    FitsBudget =>
        /\ ~HasEvent("chunk_conversation")
        /\ chunks = <<>>
        /\ EventCount("generate") <= 1
        /\ pc = "done" => EventCount("generate") = 1
        /\ HasEvent("generate") =>
              prompt = [context |-> <<>>,
                        exchanges |-> conversation,
                        start_instruction |-> "Begin the story naturally",
                        end_instruction |->
                            "Conclude the story appropriately"]

C2_Witness ==
    /\ FitsBudget
    /\ json_tokens * 10 > max_tokens * 8 - 10
    /\ pc = "done"
    /\ Len(conversation) = 3
    /\ EventCount("generate") = 1

\* C4 (as claimed): in the chunked path, when every generation call has
\* succeeded and the output path is writable, the run ends without error
\* and the output file holds the chunks' texts joined in chunk order.
C4_ChunkedOutput ==
    (/\ pc = "done"
     /\ OverBudget
     /\ ~HasEvent("raise")
     /\ output_writable)
    => /\ exit_code = 0
       /\ error = ""
       /\ Len(narrative_parts) = Len(chunks)
       /\ output_file = JoinParts(narrative_parts)

\* C5 (as claimed): in the single-shot path, when the generation call has
\* succeeded, the usage is recorded, the narrative is written to the
\* output file and main returns 0.
C5_SingleShotCompletes ==
    (/\ pc = "done"
     /\ FitsBudget
     /\ HasEvent("return")
     /\ output_writable)
    => /\ usage_log = <<<<input_tokens, count_tokens(narrative)>>>>
       /\ output_file = narrative
       /\ exit_code = 0

\* C8: once the generation call of chunk k has failed, the run is over:
\* the failure is the last call made (no retry of chunk k, no call for a
\* later chunk), chunk k was asked for once, no output file exists and
\* main's exit code is not 0.
C8_AbortOnFailure ==
    \A j \in 1..Len(events) :
        (HasEvent("chunk_conversation") /\ events[j][1] = "raise") =>
            LET k == events[j][2]
            IN /\ j = Len(events)
               /\ pc = "done"
               /\ exit_code # 0 /\ exit_code # NoExit
               /\ output_file = Unwritten
               /\ Cardinality({h \in 1..Len(events) :
                                  events[h] = <<"generate", k>>}) = 1
               /\ \A h \in 1..Len(events) :
                     events[h][1] = "generate" => events[h][2] <= k
               /\ Len(narrative_parts) = k

C8_Witness ==
    /\ pc = "done"
    /\ HasEvent("chunk_conversation")
    /\ events[Len(events)] = <<"raise", 1>>
    /\ Len(narrative_parts) = 1
    /\ output_file = Unwritten
    /\ exit_code = 1

\* C9: in the chunked path the calls of the loop come in the order
\* prompt 0, generate 0, return 0, add_usage 0, prompt 1, ...: a prompt is
\* built only after the usage of the chunk before it was recorded, at most
\* one generation call is outstanding, and add_usage is called once per
\* generated chunk, with the tracker having seen exactly those calls.
C9_Sequential ==
    HasEvent("chunk_conversation") =>
        LET le == LoopEvents
            step(j) == (j - 1) % 4
            chunk(j) == (j - 1) \div 4
            outstanding == EventCount("generate") - EventCount("return")
                              - EventCount("raise")
        IN /\ \A j \in 1..Len(le) :
                 /\ le[j][2] = chunk(j)
                 /\ le[j][1] = CASE step(j) = 0 -> "prompt"
                                 [] step(j) = 1 -> "generate"
                                 [] step(j) = 2 ->
                                      IF le[j][1] = "raise" /\ j = Len(le)
                                      THEN "raise" ELSE "return"
                                 [] OTHER -> "add_usage"
           /\ outstanding \in {0, 1}
           /\ (outstanding = 1) = (pc = "chunk_wait")
           /\ Len(usage_log) = EventCount("add_usage")
           /\ pc \in {"loop", "save"} =>
                 EventCount("add_usage") = EventCount("return")
           /\ pc = "save" => EventCount("add_usage") = Len(chunks)

C9_Witness ==
    /\ HasEvent("chunk_conversation")
    /\ pc = "save"
    /\ Len(chunks) = 2
    /\ Len(usage_log) = 2
    /\ LoopEvents[5] = <<"prompt", 1>>

\* floor(0.8 * ceiling) for the six ceilings of the MODEL_CONFIGS.
FloorOf80Percent(ceiling) ==
    CASE ceiling = 8192 -> 6553
      [] ceiling = 16384 -> 13107
      [] ceiling = 128000 -> 102400
      [] ceiling = 200000 -> 160000
      [] ceiling = 1000000 -> 800000
      [] ceiling = 2000000 -> 1600000

\* The fit check has sent the run down the single-shot path.
TookSingleShot ==
    /\ HasEvent("will_fit_in_context")
    /\ pc # "chunk"
    /\ ~HasEvent("chunk_conversation")

\* C15: will_fit_in_context is true exactly for counts up to
\* floor(0.8 * max_tokens): at every ceiling a text of exactly that many
\* tokens fits and a text of one token more does not, and the run takes the
\* single-shot path exactly when the serialized conversation's count is
\* within that limit.
C15_FitsIffWithinLimit ==
    max_tokens # 0 =>
        LET limit == FloorOf80Percent(max_tokens)
        IN /\ will_fit_in_context(limit)
           /\ ~will_fit_in_context(limit + 1)
           /\ \A n \in {0, 1, limit - 1, limit, limit + 1, limit + 2,
                        max_tokens} :
                 will_fit_in_context(n) = (n <= limit)
           /\ HasEvent("will_fit_in_context") =>
                 (TookSingleShot = (json_tokens <= limit))

\* A conversation of exactly 6553 tokens has fitted the ceiling of 8192.
C15_Witness ==
    /\ max_tokens = 8192
    /\ json_tokens = 6553
    /\ Len(conversation) > 0
    /\ TookSingleShot
    /\ HasEvent("generate")

\* One token more has not.
C15_WitnessOver ==
    /\ max_tokens = 8192
    /\ json_tokens = 6554
    /\ HasEvent("chunk_conversation")

\* args.model is in no provider's list of the configuration.
UnknownModel == \A p \in PROVIDERS : model_arg \notin available_models[p]

\* C16: a model that no provider lists is refused before a provider adapter
\* is constructed: the configuration is not overridden, no generation call
\* is made, no output file is written, and the run ends with an error and a
\* non-zero exit code.
C16_UnknownModelRejected ==
    UnknownModel =>
        /\ pc \in {"parse", "main", "done"}
        /\ provider = "" /\ model_version = "" /\ max_tokens = 0
        /\ ~HasEvent("get_provider")
        /\ ~HasEvent("generate")
        /\ generate_calls = <<>>
        /\ output_file = Unwritten
        /\ pc = "done" =>
              /\ error \in {"ValueError: model not found",
                            "SystemExit: invalid choice"}
              /\ exit_code \in {1, 2}

\* get_provider_for_model has raised for a model that argparse let through.
C16_Witness ==
    /\ UnknownModel
    /\ pc = "done"
    /\ error = "ValueError: model not found"
    /\ exit_code = 1
    /\ events = <<>>
    /\ output_file = Unwritten

\* C17: an input file of malformed JSON, or of JSON whose top level is not
\* an array, is rejected with a parse or format error before the
\* conversation's tokens are counted, before any chunking and before any
\* generation call, and nothing is written to the output file.
C17_BadInputRejected ==
    input_kind \in {"malformed", "object"} =>
        /\ pc \in {"parse", "main", "construct", "load", "done"}
        /\ ~HasEvent("will_fit_in_context")
        /\ ~HasEvent("chunk_conversation")
        /\ ~HasEvent("prompt")
        /\ ~HasEvent("generate")
        /\ generate_calls = <<>>
        /\ usage_log = <<>>
        /\ chunks = <<>>
        /\ output_file = Unwritten
        /\ (pc = "done" /\ HasEvent("get_provider")) =>
              /\ error = IF input_kind = "malformed" THEN "JSONDecodeError"
                         ELSE "ValueError: expected list"
              /\ exit_code = 1

\* A top-level object has been refused by the isinstance check.
C17_Witness ==
    /\ input_kind = "object"
    /\ pc = "done"
    /\ events = <<<<"get_provider", 0>>>>
    /\ error = "ValueError: expected list"
    /\ exit_code = 1
    /\ output_file = Unwritten

\* Malformed JSON has been refused by load_json.
C17_WitnessMalformed ==
    /\ input_kind = "malformed"
    /\ pc = "done"
    /\ events = <<<<"get_provider", 0>>>>
    /\ error = "JSONDecodeError"
    /\ output_file = Unwritten

\* The prompt of chunk k as the conversation and the chunker's settings
\* alone give it.
PromptFromInput(k) ==
    LET cs == chunk_conversation(conversation)
    IN _create_narrative_prompt(At(cs, k), k = 0, k = Len(cs) - 1)

\* C18: the prompts handed to generate are a function of the conversation
\* and the configuration alone: the call for chunk k gets PromptFromInput(k)
\* and the one system prompt, whatever texts the earlier calls returned.
\* Two runs over the same conversation and configuration therefore hand
\* the same sequence of prompts to generate.
C18_PromptsFromInputOnly ==
    /\ HasEvent("chunk_conversation") =>
          \A j \in 1..Len(generate_calls) :
              generate_calls[j] = [prompt |-> PromptFromInput(j - 1),
                                   system_prompt |-> _get_system_prompt]
    /\ TookSingleShot =>
          \A j \in 1..Len(generate_calls) :
              generate_calls[j]
                 = [prompt |-> _create_narrative_prompt(
                                  [exchanges |-> conversation,
                                   context |-> <<>>], TRUE, TRUE),
                    system_prompt |-> _get_system_prompt]

\* Two runs over the same conversation whose first chunk's text differs
\* have both made the call for the second chunk.
C18_Witness ==
    /\ HasEvent("chunk_conversation")
    /\ conversation = <<Plain, Plain, Cue>>
    /\ context_exchanges = 2
    /\ Len(generate_calls) = 2
    /\ narrative_parts[1] = <<"a">>
    /\ generate_calls[2].prompt.context = <<Plain, Plain>>

C18_WitnessOtherText ==
    /\ HasEvent("chunk_conversation")
    /\ conversation = <<Plain, Plain, Cue>>
    /\ context_exchanges = 2
    /\ Len(generate_calls) = 2
    /\ narrative_parts[1] = <<"b", "c">>
    /\ generate_calls[2].prompt.context = <<Plain, Plain>>

\* The start instruction of a chunk that is not the first.
ContinuationInstruction ==
    "Continue the narrative seamlessly from the previous section"

\* C19: in the chunked path over n chunks, the prompt of chunk i carries
\* the opening instruction exactly when i = 0 (else the continuation
\* instruction) and the closing instruction exactly when i = n - 1 (else
\* the lead-into-next instruction); a run of one chunk gets the opening and
\* the closing instruction.
C19_FirstAndLastInstructions ==
    HasEvent("chunk_conversation") =>
        LET n == Len(chunks)
        IN /\ Len(generate_calls) <= n
           /\ \A j \in 1..Len(generate_calls) :
                 LET p == generate_calls[j].prompt
                     idx == j - 1
                 IN /\ p.exchanges = chunks[j].exchanges
                    /\ (p.start_instruction = "Begin the story naturally")
                          = (idx = 0)
                    /\ (p.start_instruction = ContinuationInstruction)
                          = (idx # 0)
                    /\ (p.end_instruction = "Conclude the story appropriately")
                          = (idx = n - 1)
                    /\ (p.end_instruction
                          = "Lead naturally into the next section")
                          = (idx # n - 1)
           /\ (n = 1 /\ Len(generate_calls) = 1) =>
                 /\ generate_calls[1].prompt.start_instruction
                       = "Begin the story naturally"
                 /\ generate_calls[1].prompt.end_instruction
                       = "Conclude the story appropriately"

\* Both chunks of a run of two chunks have been asked for.
C19_Witness ==
    /\ HasEvent("chunk_conversation")
    /\ Len(chunks) = 2
    /\ Len(generate_calls) = 2
    /\ generate_calls[1].prompt.end_instruction
          = "Lead naturally into the next section"
    /\ generate_calls[2].prompt.start_instruction = ContinuationInstruction
    /\ generate_calls[2].prompt.end_instruction
          = "Conclude the story appropriately"

\* A conversation over the budget has given one chunk.
C19_WitnessOneChunk ==
    /\ HasEvent("chunk_conversation")
    /\ Len(chunks) = 1
    /\ Len(conversation) = 3
    /\ Len(generate_calls) = 1
    /\ generate_calls[1].prompt.start_instruction = "Begin the story naturally"
    /\ generate_calls[1].prompt.end_instruction
          = "Conclude the story appropriately"

\* The peak record after the first j calls of usage_log: the largest
\* input+output among them, and the cumulative total after the first call
\* that reached it.
CallTotal(h) == usage_log[h][1] + usage_log[h][2]
PeakAfter(j) ==
    LET h == CHOOSE h \in 1..j :
                /\ \A g \in 1..j : CallTotal(g) <= CallTotal(h)
                /\ \A g \in 1..(h - 1) : CallTotal(g) < CallTotal(h)
    IN [max_used |-> CallTotal(h),
        max_allowed |-> max_tokens,
        at_tokens |-> SumOf(SubSeq(usage_log, 1, h), 1)
                         + SumOf(SubSeq(usage_log, 1, h), 2)]

\* The recorded calls after which the peak is above 80% of the ceiling.
IsOver80(j) == PeakAfter(j).max_used * 100 > 80 * max_tokens
CallsOver80 == SelectSeq([j \in 1..Len(usage_log) |-> j], IsOver80)

\* The report that follows the last recorded usage has been made, or the
\* run is past the place where it would have been.
ReportingDone == pc \notin {"single_usage", "single_report", "chunk_usage"}

\* C20 (as claimed): after every generation call whose usage has been
\* recorded, in the single-shot path and in the chunked path, a warning
\* that names the peak (as used of allowed) and its cumulative position
\* has been printed if the recorded peak is above 80% of the ceiling, and
\* none if it is not.
C20_WarningAfterEveryRecord ==
    ReportingDone =>
        /\ Len(warnings) = Len(CallsOver80)
        /\ \A m \in 1..Len(warnings) :
              warnings[m] = PeakAfter(CallsOver80[m])

\* What the code does: the same, in the chunked path only; the single-shot
\* path prints no warning.
C20_ChunkedPathOnly ==
    /\ (ReportingDone /\ HasEvent("chunk_conversation")) =>
          /\ Len(warnings) = Len(CallsOver80)
          /\ \A m \in 1..Len(warnings) :
                warnings[m] = PeakAfter(CallsOver80[m])
    /\ TookSingleShot => warnings = <<>>

\* A chunked run whose second chunk took the peak above 80%, after a first
\* chunk at exactly 80%.
C20_ChunkedWitness ==
    /\ HasEvent("chunk_conversation")
    /\ max_tokens = 128000
    /\ usage_log = <<<<102399, 1>>, <<102399, 2>>>>
    /\ warnings = <<[max_used |-> 102401, max_allowed |-> 128000,
                     at_tokens |-> 204801]>>

\* A single-shot run whose one call is above 80% has ended with no warning.
C20_SingleShotSilent ==
    /\ TookSingleShot
    /\ pc = "done"
    /\ max_tokens = 128000
    /\ usage_log = <<<<102401, 1>>>>
    /\ warnings = <<>>

\* str.title() of the provider's name, as the adapters' messages spell it.
ProviderTitle ==
    CASE provider = "openai" -> "OpenAI"
      [] provider = "anthropic" -> "Anthropic"
      [] provider = "gemini" -> "Gemini"
      [] provider = "novelai" -> "NovelAI"
      [] OTHER -> "unknown"

\* The line main's handlers print to stderr for the exception that ended
\* the run, word by word; "<cause>" is the text of the library's exception.
stderr_message ==
    CASE error = "Exception: API error" ->
             <<"Unexpected", "error:", ProviderTitle, "API", "error:",
               "<cause>">>
      [] error = "FileNotFoundError" ->
             <<"Error:", "File", "not", "found:", "<path>">>
      [] error = "JSONDecodeError" ->
             <<"Error:", "Invalid", "JSON", "-", "Invalid", "JSON", "in",
               "<path>:", "<cause>">>
      [] error = "ValueError: expected list" ->
             <<"Error:", "Invalid", "conversation", "format:", "expected",
               "list", "of", "exchanges">>
      [] error = "ValueError: model not found" ->
             <<"Error:", "Model", "<model>", "not", "found", "in",
               "available", "models">>
      [] error = "AttributeError: get_cumulative_usage" ->
             <<"Unexpected", "error:", "'TokenCounter'", "object", "has",
               "no", "attribute", "'get_cumulative_usage'">>
      [] error = "UnboundLocalError: narrative" ->
             <<"Unexpected", "error:", "cannot", "access", "local",
               "variable", "'narrative'">>
      [] error = "IOError" ->
             <<"Unexpected", "error:", "Error", "writing", "narrative", "to",
               "<path>:", "<cause>">>
      [] OTHER -> <<>>

\* How a message can name chunk k: by its index, or by its number k + 1.
DigitText(n) ==
    CASE n = 0 -> "0" [] n = 1 -> "1" [] n = 2 -> "2" [] n = 3 -> "3"
      [] n = 4 -> "4" [] n = 5 -> "5" [] n = 6 -> "6" [] OTHER -> "7"
MessageHas(words) ==
    \E j \in 1..Len(stderr_message) : stderr_message[j] \in words

\* The run has ended in a failed generation call.
GenerationFailed ==
    /\ pc = "done"
    /\ events # <<>>
    /\ events[Len(events)][1] = "raise"

\* C21 (as claimed): when a generation call fails, the reported error tells
\* that the failing stage is generation and names the index of the chunk
\* that was being processed.
C21_ErrorNamesStageAndChunk ==
    GenerationFailed =>
        LET k == events[Len(events)][2]
        IN /\ MessageHas({"API", "generate", "generation"})
           /\ MessageHas({DigitText(k), DigitText(k + 1)})

\* What the code reports: the adapter's "<Provider> API error" and the
\* library's text, in both paths and for every chunk.
C21_CodeReports ==
    GenerationFailed =>
        /\ exit_code = 1
        /\ stderr_message = <<"Unexpected", "error:", ProviderTitle, "API",
                              "error:", "<cause>">>

\* The second chunk's generation call has failed.
C21_SecondChunkFailed ==
    /\ GenerationFailed
    /\ events[Len(events)] = <<"raise", 1>>
    /\ stderr_message[3] = "Gemini"

\* max_input_tokens of each model in its adapter's MODEL_CONFIGS.
TableCeiling(model) ==
    CASE model \in {"gpt-4o", "gpt-4o-mini"} -> 128000
      [] model \in {"claude-3-opus-latest", "claude-3-sonnet-latest",
                    "claude-3-haiku-latest"} -> 200000
      [] model \in {"gemini-2.0-flash", "gemini-1.5-flash"} -> 1000000
      [] model = "gemini-1.5-pro" -> 2000000
      [] model = "erato" -> 16384
      [] model \in {"kayra", "clio", "krake"} -> 8192

\* C24: once ConversationProcessor is constructed, the tracker's max_tokens
\* is the model's max_input_tokens of its adapter's table: not the default
\* of 128000 and not the max_input_tokens of the configuration when those
\* differ from it, and the same ceiling as the adapter used for generation.
C24_CeilingFromModelTable ==
    HasEvent("get_provider") =>
        LET ceiling == TableCeiling(model_version)
        IN /\ max_tokens = ceiling
           /\ llm_max_tokens = max_tokens
           /\ ceiling # 128000 => max_tokens # 128000
           /\ config_file_ceiling # ceiling =>
                 max_tokens # config_file_ceiling
           /\ config_max_input_tokens = ceiling

\* The configuration asked for 5 tokens and the model's table says 200000.
C24_Witness ==
    /\ pc = "load"
    /\ HasEvent("get_provider")
    /\ model_version = "claude-3-opus-latest"
    /\ config_file_ceiling = 5
    /\ max_tokens = 200000
    /\ llm_max_tokens = 200000

\* No entry in the configuration and a ceiling that is not the default.
C24_WitnessNotConfigured ==
    /\ pc = "load"
    /\ model_version = "kayra"
    /\ config_file_ceiling = NotConfigured
    /\ max_tokens = 8192

\* The number of chunks the cues alone give: one, and one more for every
\* exchange from index 2 on that carries a cue when splitting is enabled.
ChunksByCues ==
    IF split_on_scenes
    THEN 1 + Cardinality({b \in 2..(Len(conversation) - 1) :
                             HasCue(At(conversation, b))})
    ELSE 1

\* C25: in the chunked path there is one generation call per chunk, and
\* the chunks come from the scene cues alone, whatever the token counts: a
\* conversation over the budget with splitting disabled or no cue detected
\* gets exactly one call, whose prompt covers the whole conversation with
\* the opening and the closing instruction; every call carries its chunk
\* whole, and no chunk is refused for its size.
C25_OneCallPerChunk ==
    HasEvent("chunk_conversation") =>
        /\ Len(chunks) = ChunksByCues
        /\ Len(generate_calls) <= Len(chunks)
        /\ (pc = "save" \/ (pc = "done" /\ ~HasEvent("raise"))) =>
              Len(generate_calls) = Len(chunks)
        /\ \A j \in 1..Len(generate_calls) :
              generate_calls[j].prompt.exchanges = chunks[j].exchanges
        /\ JoinParts([j \in 1..Len(chunks) |-> chunks[j].exchanges])
              = conversation
        /\ error \in {"", "Exception: API error",
                      "UnboundLocalError: narrative"}
        /\ (~split_on_scenes \/ NoCueAtTestedPositions) =>
              /\ Len(chunks) = 1
              /\ \A j \in 1..Len(generate_calls) :
                    generate_calls[j].prompt
                       = [context |-> <<>>,
                          exchanges |-> conversation,
                          start_instruction |-> "Begin the story naturally",
                          end_instruction |->
                              "Conclude the story appropriately"]

\* A conversation over the budget with cues only where no test looks: one
\* call, for a prompt that is itself over the budget.
C25_Witness ==
    /\ HasEvent("chunk_conversation")
    /\ pc = "save"
    /\ split_on_scenes
    /\ conversation = <<Cue, Cue, Plain>>
    /\ json_tokens > EffectiveLimit
    /\ input_tokens > EffectiveLimit
    /\ Len(generate_calls) = 1
    /\ generate_calls[1].prompt.exchanges = conversation

=============================================================================
